---- MODULE Spec2Model ----
(***************************************************************************)
(* A model of home_bittorrent_bot: the Telegram handlers of src/main.rs    *)
(* (commands_callback_handler, commands_handler, torrents_handler and the  *)
(* ingestion helpers they call), the daemon client of src/client.rs and    *)
(* the allow-list set of src/state.rs.                                     *)
(*                                                                         *)
(* Every update is handled by a task of its own.  A task runs from one     *)
(* `.await` on a network call to the next without interruption, so the     *)
(* model has one action per await point: the action takes the answer of    *)
(* the pending call and runs the handler up to the next call it issues or  *)
(* up to its return.                                                       *)
(*                                                                         *)
(* Strings the code searches or parses (the allow-list, a message text)    *)
(* are sequences of one-character strings; strings the code only compares *)
(* or passes on are TLA+ strings.  The user-facing texts are Russian in    *)
(* the source; they are transliterated here, the source text is in the     *)
(* comment beside each.                                                    *)
(***************************************************************************)
EXTENDS Integers, Sequences, FiniteSets

VARIABLES
    configuration,  \* main.rs Configuration, read once by load_config
    tasks,          \* one record per update being handled (Task below)
    clients,        \* QBittorrentClient instances driven call by call (SpecClient)
    daemon,         \* the sessions the daemon has issued to them (SpecClient)
    bot_state       \* state.rs BotState, once built (SpecState)

vars == <<configuration, tasks, clients, daemon, bot_state>>

(***************************************************************************)
(* Bounds.                                                                 *)
(***************************************************************************)
\* Updates handled concurrently under Spec.
NumEvents == 1
\* Calls made on the clients of SpecClient.
MaxCalls == 3
\* Length of the configured `user_id` string under SpecState.
MaxUserIdLen == 3

Slots == 1..NumEvents

(***************************************************************************)
(* Strings as sequences of characters.                                     *)
(***************************************************************************)
DigitChars == <<"0", "1", "2", "3", "4", "5", "6", "7", "8", "9">>

\* The value of a digit character, -1 for any other character.
DigitValue(c) ==
    IF \E d \in 0..9 : DigitChars[d + 1] = c
    THEN CHOOSE d \in 0..9 : DigitChars[d + 1] = c
    ELSE -1

RECURSIVE NatToString(_)
NatToString(n) ==
    IF n < 10 THEN <<DigitChars[n + 1]>>
    ELSE NatToString(n \div 10) \o <<DigitChars[(n % 10) + 1]>>

\* i64::to_string: decimal digits, a leading '-' for a negative number.
ToString(n) == IF n < 0 THEN <<"-">> \o NatToString(-n) ELSE NatToString(n)

\* str::contains(&str): the needle occurs somewhere in the haystack.
Contains(hay, needle) ==
    \E i \in 0..(Len(hay) - Len(needle)) :
        SubSeq(hay, i + 1, i + Len(needle)) = needle

\* str::starts_with(&str).
StartsWith(s, prefix) ==
    /\ Len(s) >= Len(prefix)
    /\ SubSeq(s, 1, Len(prefix)) = prefix

\* str::split(','): the pieces between the separators; the empty string
\* splits into one empty piece.
RECURSIVE Split(_, _)
Split(s, sep) ==
    IF \A i \in 1..Len(s) : s[i] # sep THEN <<s>>
    ELSE LET k == CHOOSE i \in 1..Len(s) :
                      /\ s[i] = sep
                      /\ \A j \in 1..(i - 1) : s[j] # sep
         IN  <<SubSeq(s, 1, k - 1)>> \o Split(SubSeq(s, k + 1, Len(s)), sep)

RECURSIVE DigitsValue(_)
DigitsValue(s) ==
    IF Len(s) = 0 THEN 0
    ELSE 10 * DigitsValue(SubSeq(s, 1, Len(s) - 1)) + DigitValue(s[Len(s)])

\* str::parse::<i64>: an optional sign, then one or more ASCII digits and
\* nothing else (no spaces).  The strings of this model are far too short to
\* overflow an i64.
ParseI64(s) ==
    LET signed == Len(s) > 0 /\ s[1] \in {"+", "-"}
        digits == IF signed THEN SubSeq(s, 2, Len(s)) ELSE s
    IN  IF Len(digits) = 0 \/ \E i \in 1..Len(digits) : DigitValue(digits[i]) < 0
        THEN [ok |-> FALSE, value |-> 0]
        ELSE [ok |-> TRUE,
              value |-> IF signed /\ s[1] = "-" THEN 0 - DigitsValue(digits)
                        ELSE DigitsValue(digits)]

(***************************************************************************)
(* Values.                                                                 *)
(***************************************************************************)
\* Option<T>: the empty sequence is None, a one-element sequence is Some.
None == <<>>
Some(x) == <<x>>

\* anyhow::Result of the ingestion: Ok(Income) or Err(error).
Ok(income) == [ok |-> TRUE, income |-> income, err |-> [msg |-> "", detail |-> ""]]
Err(msg, detail) == [ok |-> FALSE, income |-> "", err |-> [msg |-> msg, detail |-> detail]]

\* telers' EventReturn::default() is EventReturn::Finish.
EventReturnDefault == "Finish"

\* "magnet:?"
MagnetPrefix == <<"m", "a", "g", "n", "e", "t", ":", "?">>
\* "/commands"
CommandsText == <<"/", "c", "o", "m", "m", "a", "n", "d", "s">>

\* The texts of the replies (Russian in the source).
MsgEnqueued == "Torrent dobavlen v ochered"     \* "✅Торрент добавлен в очередь"
MsgError == "Oshibka dobavleniya torrenta"      \* "⛔Ошибка добавления торрента"
MsgCommands == "Dostupnye komandy"              \* "Доступные команды"
MsgShutdown == "Vyklyuchenie..."                \* "Выключение..."
ShutdownKeyboard == <<[text |-> "Vyklyuchit", callback_data |-> "shutdown"]>>

(***************************************************************************)
(* The inputs: configurations, updates and the answers of the network.     *)
(***************************************************************************)
\* The configured `user_id` strings: "42" and "9,42".
UserIdSettings == { <<"4", "2">>, <<"9", ",", "4", "2">> }

\* The configured daemon address, by its components as written:
\* "http://qb:8080/", and "//qb:8080/", which has no scheme and which
\* Url::parse refuses as a relative URL without a base.
UrlSettings ==
    { [scheme |-> "http", authority |-> "qb:8080", path |-> "/"],
      [scheme |-> "", authority |-> "qb:8080", path |-> "/"] }

Configurations ==
    [bot_token : {"TOKEN"}, user_id : UserIdSettings, username : {"admin"},
     password : {"secret"}, url : UrlSettings]

\* Sender identifiers: 42 is listed, 4 is part of a listed identifier,
\* 99 is neither.
UserIds == {4, 42, 99}
ChatIds == {7}

TorrentBytes == <<100, 56>>     \* "d8", the first bytes of a .torrent file
NotFoundBytes == <<78, 111>>    \* the body of an error page

MessageTexts ==
    { MagnetPrefix \o <<"x">>,              \* a magnet link
      <<" ">> \o MagnetPrefix \o <<"x">>,   \* a magnet link after a space
      CommandsText,
      <<"h", "i">> }

TextMessages ==
    [type : {"message"}, kind : {"Text"}, from : {None} \cup {Some(u) : u \in UserIds},
     chat : ChatIds, text : MessageTexts, file_id : {""}, id : {""}, data : {None}]

\* A document, and a message that is neither a document nor a text.  Every
\* callback query below comes with its chat, so `callback.chat_id().unwrap()`
\* does not panic.
OtherMessages ==
    [type : {"message"}, kind : {"Document", "Photo"},
     from : {None} \cup {Some(u) : u \in UserIds},
     chat : ChatIds, text : {<<>>}, file_id : {"FILE1"}, id : {""}, data : {None}]

CallbackQueries ==
    [type : {"callback_query"}, kind : {"Callback"}, from : {Some(u) : u \in UserIds},
     chat : ChatIds, text : {<<>>}, file_id : {""}, id : {"CB1"},
     data : {None, Some("shutdown"), Some("other")}]

Updates == TextMessages \cup OtherMessages \cup CallbackQueries

\* The answer to a Bot API call that returns nothing of interest.
BotAnswers == { [ok |-> TRUE], [ok |-> FALSE] }

\* GetFile: an error, a File without a path, a File with a path.
GetFileAnswers ==
    { [ok |-> FALSE, file_path |-> None],
      [ok |-> TRUE, file_path |-> None],
      [ok |-> TRUE, file_path |-> Some("documents/file_1.torrent")] }

\* The file-storage endpoint: a failed request (ok = FALSE), or a response.
DownloadAnswers ==
    { [ok |-> FALSE, status |-> 0, body |-> <<>>],
      [ok |-> TRUE, status |-> 200, body |-> TorrentBytes],
      [ok |-> TRUE, status |-> 404, body |-> NotFoundBytes] }

\* What `.send().await` returns of such an answer: an error, or the response
\* with its status.
HeadOf(a) == [ok |-> a.ok, status |-> a.status]
DownloadHeads == { HeadOf(a) : a \in DownloadAnswers }

\* What `.bytes().await` then gives: the body of an answer of that status, or
\* an error, after which the answer is a failed one with the status it had.
DownloadBodies(head) ==
    { a \in DownloadAnswers : a.ok /\ a.status = head.status }
        \cup { [ok |-> FALSE, status |-> head.status, body |-> <<>>] }

\* The daemon's answers to the login POST.
LoginAnswers ==
    { [ok |-> FALSE, status |-> 0, body |-> "", set_cookie |-> {}],
      [ok |-> TRUE, status |-> 200, body |-> "Ok.", set_cookie |-> {"SID"}],
      [ok |-> TRUE, status |-> 403, body |-> "Forbidden", set_cookie |-> {}] }

\* The daemon gives every login it accepts a session of its own: the cookie
\* in the answer to the login of task e names e.
LoginAnswersTo(e) ==
    { [a EXCEPT !.set_cookie = { <<c, e>> : c \in a.set_cookie }] : a \in LoginAnswers }

\* The daemon's answers to the add-torrent POST.
AddAnswers ==
    { [ok |-> FALSE, status |-> 0, body |-> ""],
      [ok |-> TRUE, status |-> 200, body |-> "Ok."],
      [ok |-> TRUE, status |-> 200, body |-> "Fails."],
      [ok |-> TRUE, status |-> 403, body |-> "Forbidden"],
      [ok |-> TRUE, status |-> 500, body |-> "Ok."] }

\* What the add-torrent request's `.send().await` returns of the answers, and
\* what `.text().await` then gives: the body of an answer of that status, or
\* an error.
AddHeadsOf(answers) == { HeadOf(a) : a \in answers }
AddHeads == AddHeadsOf(AddAnswers)
AddBodies(answers, head) ==
    { a \in answers : a.ok /\ a.status = head.status }
        \cup { [ok |-> FALSE, status |-> head.status, body |-> ""] }

\* StatusCode::is_success: 200..=299.
IsSuccess(status) == status >= 200 /\ status < 300

(***************************************************************************)
(* The allow-list.                                                         *)
(***************************************************************************)
\* BotState::new: the pieces of `user_id` that parse as an i64; the pieces
\* that do not are dropped.
\* AllowedUserIds that strips the spaces of each entry before parsing it.
AllowedUserIdsTrimmed(user_id) ==
    LET pieces == Split(user_id, ",")
        Stripped(i) == SelectSeq(pieces[i], LAMBDA c : c # " ")
    IN  { ParseI64(Stripped(i)).value :
              i \in { j \in 1..Len(pieces) : ParseI64(Stripped(j)).ok } }

\* BotState::new, the allow-list: split(','), parse::<i64>, filter_map(ok),
\* collect into a HashSet.
AllowedUserIds(user_id) ==
    LET pieces == Split(user_id, ",")
    IN  { ParseI64(pieces[i]).value : i \in { j \in 1..Len(pieces) : ParseI64(pieces[j]).ok } }

\* BotState::user_allowed.
UserAllowed(user_id, id) == id \in AllowedUserIds(user_id)

\* commands_handler's test of the sender:
\* state.configuration.user_id.contains(&from.id.to_string()).
CommandsUserKnown(cfg, id) == Contains(cfg.user_id, ToString(id))

\* torrents_handler's test of the sender (the same expression).
TorrentsUserKnown(cfg, id) == Contains(cfg.user_id, ToString(id))

(***************************************************************************)
(* Addresses.                                                              *)
(***************************************************************************)
\* Url::parse: an absolute URL needs a scheme.
UrlParse(u) ==
    IF u.scheme = "" THEN [ok |-> FALSE, url |-> u] ELSE [ok |-> TRUE, url |-> u]

\* Url::join with an endpoint that starts with '/': the endpoint replaces the path.
UrlJoin(base, endpoint) == [base EXCEPT !.path = endpoint]

\* download_torrent_file's format!("https://api.telegram.org/file/bot{}/{}", ..).
FileUrl(token, file_path) ==
    [scheme |-> "https", authority |-> "api.telegram.org",
     path |-> <<"file", "bot", token, file_path>>]

(***************************************************************************)
(* Tasks and the calls they make.                                          *)
(***************************************************************************)
\* A task that handles no update.  `calls` are the outbound calls in the
\* order issued and `answers` what came back for them, `logged` what went to
\* the log, `returned` what each handler returned to the dispatcher.
IdleTask ==
    [pc |-> "idle", update |-> None, handler |-> 0, request_type |-> None,
     client |-> None, result |-> None, calls |-> <<>>, answers |-> <<>>,
     head |-> None, logged |-> <<>>, returned |-> <<>>]

\* bot.send(..).await and http_client...send().await: the call goes out and
\* the task waits for its answer.
Issue(t, call, at) == [t EXCEPT !.calls = Append(@, call), !.pc = at]

Answered(t, answer) == [t EXCEPT !.answers = Append(@, answer), !.head = None]

\* `.send().await` has returned a response: its status is known, its body is
\* still to be read, and the task waits again, at `.bytes().await` or
\* `.text().await`.
HeadReceived(t, head, at) == [t EXCEPT !.head = Some(head), !.pc = at]

Log(t, level, msg, detail) ==
    [t EXCEPT !.logged = Append(@, [level |-> level, msg |-> msg, detail |-> detail])]

SendMessage(chat, text, markup) ==
    [via |-> "bot", method |-> "SendMessage", target |-> chat,
     payload |-> [text |-> text, reply_markup |-> markup]]

AnswerCallbackQuery(id) ==
    [via |-> "bot", method |-> "AnswerCallbackQuery", target |-> id, payload |-> <<>>]

GetFile(file_id) ==
    [via |-> "bot", method |-> "GetFile", target |-> file_id, payload |-> <<>>]

\* download_torrent_file's GET on the shared reqwest client.
DownloadCall(cfg, file_path) ==
    [via |-> "state.client", method |-> "GET",
     target |-> FileUrl(cfg.bot_token, file_path), payload |-> <<>>]

\* NewClient over a cookie store that outlives the client, and holds the
\* session of an earlier login.
NewClientReused(url) == [base_url |-> url, cookies |-> {<<"SID", 1>>}]

\* QBittorrentClient::new: the parsed address and an empty cookie store.
NewClient(url) == [base_url |-> url, cookies |-> {}]

\* QBittorrentClient::login's request.
LoginCall(client, username, password) ==
    [via |-> "daemon", method |-> "POST",
     target |-> UrlJoin(client.base_url, "/api/v2/auth/login"),
     payload |-> [content_type |-> "application/x-www-form-urlencoded",
                  referer |-> client.base_url,
                  cookies |-> client.cookies,
                  body |-> <<"username=", username, "&password=", password>>]]

\* LoginResult that reads the daemon's body, as add_new_torrent does.
LoginResultByBody(answer) ==
    IF ~answer.ok THEN Err("reqwest::Error", "login")
    ELSE IF answer.body = "Ok." THEN Ok("")
    ELSE Err("Auth failed", "")

\* QBittorrentClient::login's verdict on the answer.
LoginResult(answer) ==
    IF ~answer.ok THEN Err("reqwest::Error", "login")
    ELSE IF IsSuccess(answer.status) THEN Ok("")
    ELSE Err("Auth failed", "")

\* RequestType::Url(text) and RequestType::File(bytes).
RequestUrl(text) == [variant |-> "Url", data |-> text]
RequestFile(bytes) == [variant |-> "File", data |-> bytes]

\* ToPart with the file part built like the text part: no file name, no type.
ToPartBare(request_type) ==
    [name |-> IF request_type.variant = "Url" THEN "urls" ELSE "torrents",
     content |-> request_type.data, file_name |-> None, mime |-> None]

\* RequestType::to_part: the part's name and the part.
ToPart(request_type) ==
    IF request_type.variant = "Url"
    THEN [name |-> "urls", content |-> request_type.data,
          file_name |-> None, mime |-> None]
    ELSE [name |-> "torrents", content |-> request_type.data,
          file_name |-> Some("torrent.torrent"),
          mime |-> Some("application/x-bittorrent")]

\* QBittorrentClient::add_new_torrent's request: a form of one part.
AddCall(client, request_type) ==
    [via |-> "daemon", method |-> "POST",
     target |-> UrlJoin(client.base_url, "/api/v2/torrents/add"),
     payload |-> [cookies |-> client.cookies,
                  multipart |-> <<ToPart(request_type)>>]]

\* AddResult without the test of the body.
AddResultStatusOnly(answer) ==
    IF ~answer.ok THEN Err("reqwest::Error", "add")
    ELSE IF ~IsSuccess(answer.status)
    THEN Err("Error adding new torrent with file", answer.body)
    ELSE Ok("")

\* AddResult that only looks at whether the request went through.
AddResultTransportOnly(answer) ==
    IF ~answer.ok THEN Err("reqwest::Error", "add") ELSE Ok("")

\* QBittorrentClient::add_new_torrent's verdict on the answer.
AddResult(answer) ==
    IF ~answer.ok THEN Err("reqwest::Error", "add")
    ELSE IF ~IsSuccess(answer.status)
    THEN Err("Error adding new torrent with file", answer.body)
    ELSE IF answer.body # "Ok."
    THEN Err("Error adding new torrent with file, not Ok., but", answer.body)
    ELSE Ok("")

(***************************************************************************)
(* The handlers.  Each operator takes the task and gives the task as it is *)
(* at the handler's next await or after its return.                        *)
(***************************************************************************)
\* run_bot's registrations, in order, per kind of update.
MessageHandlers == <<"commands_handler", "torrents_handler">>
CallbackHandlers == <<"commands_callback_handler">>

RouterHandlers(update) ==
    IF update.type = "message" THEN MessageHandlers ELSE CallbackHandlers

RECURSIVE Propagate(_, _, _)

\* A handler returns to the dispatcher: Skip passes the update to the next
\* handler registered, anything else (Finish, an error) ends its handling.
HandlerReturns(cfg, t, value) ==
    LET name == RouterHandlers(t.update[1])[t.handler]
        t1 == [t EXCEPT !.returned = Append(@, [handler |-> name, value |-> value])]
    IN  IF value = "Skip" THEN Propagate(cfg, t1, t.handler + 1)
        ELSE [t1 EXCEPT !.pc = "done"]

\* ReplyText with a reply for a skipped message too.
ReplyTextForAll(result) ==
    IF result.ok THEN Some(MsgEnqueued) ELSE Some(MsgError)

\* ReplyText with the error's own message as the failure reply.
ReplyTextWithError(result) ==
    IF result.ok
    THEN IF result.income = "Enqueued" THEN Some(MsgEnqueued) ELSE None
    ELSE Some(result.err.msg)

\* torrents_handler's choice of the reply.
ReplyText(result) ==
    IF result.ok
    THEN IF result.income = "Enqueued" THEN Some(MsgEnqueued) ELSE None
    ELSE Some(MsgError)

\* ResultExt::log_error.
LogError(t, result) ==
    IF result.ok THEN t ELSE Log(t, "error", result.err.msg, result.err.detail)

\* torrents_handler from `.log_error()` on: the error is logged, the reply
\* chosen and, if there is one, sent.
Conclude(cfg, t, result) ==
    LET t1 == [LogError(t, result) EXCEPT !.result = Some(result)]
        text == ReplyText(result)
    IN  IF text # None
        THEN Issue(t1, SendMessage(t.update[1].chat, text[1], None), "reply")
        ELSE HandlerReturns(cfg, t1, EventReturnDefault)

\* main.rs add_new_torrent up to the login request: a client of its own is
\* built for the attempt, and logs in.
StartAddNewTorrent(cfg, t, request_type) ==
    LET parsed == UrlParse(cfg.url)
        t1 == [t EXCEPT !.request_type = Some(request_type)]
    IN  IF ~parsed.ok THEN Conclude(cfg, t1, Err("url::ParseError", ""))
        ELSE LET client == NewClient(parsed.url)
             IN  Issue([t1 EXCEPT !.client = Some(client)],
                       LoginCall(client, cfg.username, cfg.password), "login")

\* Classify with `contains` in the place of `starts_with`.
ClassifyAnywhere(cfg, t) ==
    LET message == t.update[1]
    IN  IF message.kind = "Document"
        THEN Issue(t, GetFile(message.file_id), "get_file")
        ELSE IF message.kind = "Text"
        THEN IF Contains(message.text, MagnetPrefix)
             THEN StartAddNewTorrent(cfg, t, RequestUrl(message.text))
             ELSE Conclude(cfg, Log(t, "warn", "Unexpected text message received",
                                    message.text),
                           Ok("Skipped"))
        ELSE Conclude(cfg, t, Ok("Skipped"))

\* torrents_handler's classification of the message of a known sender.
Classify(cfg, t) ==
    LET message == t.update[1]
    IN  IF message.kind = "Document"
        THEN Issue(t, GetFile(message.file_id), "get_file")
        ELSE IF message.kind = "Text"
        THEN IF StartsWith(message.text, MagnetPrefix)
             THEN StartAddNewTorrent(cfg, t, RequestUrl(message.text))
             ELSE Conclude(cfg, Log(t, "warn", "Unexpected text message received",
                                    message.text),
                           Ok("Skipped"))
        ELSE Conclude(cfg, t, Ok("Skipped"))

\* torrents_handler up to its first await.
torrents_handler(cfg, t) ==
    LET message == t.update[1]
    IN  IF message.from = None THEN HandlerReturns(cfg, t, EventReturnDefault)
        ELSE IF ~TorrentsUserKnown(cfg, message.from[1])
        THEN HandlerReturns(cfg, Log(t, "warn", "Unknown user id",
                                     ToString(message.from[1])),
                            EventReturnDefault)
        ELSE Classify(cfg, t)

\* commands_handler up to its first await.
commands_handler(cfg, t) ==
    LET message == t.update[1]
    IN  IF message.from = None THEN HandlerReturns(cfg, t, "Skip")
        ELSE IF ~CommandsUserKnown(cfg, message.from[1])
        THEN HandlerReturns(cfg, Log(t, "warn", "Unknown user id",
                                     ToString(message.from[1])),
                            EventReturnDefault)
        ELSE IF message.kind = "Text" /\ message.text = CommandsText
        THEN Issue(t, SendMessage(message.chat, MsgCommands, Some(ShutdownKeyboard)),
                   "cmd_send")
        ELSE HandlerReturns(cfg, t, "Skip")

\* commands_callback_handler up to its first await.
commands_callback_handler(cfg, t) ==
    Issue(t, AnswerCallbackQuery(t.update[1].id), "cb_answer")

\* The router: the handlers registered for the update's kind run in order,
\* from the i-th on, until one does not return Skip.
Propagate(cfg, t, i) ==
    LET handlers == RouterHandlers(t.update[1])
        t1 == [t EXCEPT !.handler = i]
    IN  IF i > Len(handlers) THEN [t EXCEPT !.pc = "done"]
        ELSE IF handlers[i] = "commands_handler" THEN commands_handler(cfg, t1)
        ELSE IF handlers[i] = "torrents_handler" THEN torrents_handler(cfg, t1)
        ELSE commands_callback_handler(cfg, t1)

(***************************************************************************)
(* The continuations after each await.                                     *)
(***************************************************************************)
\* A handler's `bot.send(..).await?` as its last step.
AfterSend(cfg, t, answer) ==
    HandlerReturns(cfg, Answered(t, answer), IF answer.ok THEN "Finish" ELSE "Err")

\* commands_callback_handler after AnswerCallbackQuery.
AfterCallbackAnswer(cfg, t, answer) ==
    LET t1 == Answered(t, answer)
        callback == t.update[1]
    IN  IF ~answer.ok THEN HandlerReturns(cfg, t1, "Err")
        ELSE IF callback.data = Some("shutdown")
        THEN Issue(t1, SendMessage(callback.chat, MsgShutdown, None), "cb_send")
        ELSE HandlerReturns(cfg, t1, "Finish")

\* add_torrent_by_file after GetFile.
AfterGetFile(cfg, t, answer) ==
    LET t1 == Answered(t, answer)
    IN  IF ~answer.ok THEN Conclude(cfg, t1, Err("telers::SessionError", "GetFile"))
        ELSE IF answer.file_path = None
        THEN Conclude(cfg, t1, Err("File path not available after fet file info", ""))
        ELSE Issue(t1, DownloadCall(cfg, answer.file_path[1]), "download")

\* download_torrent_file's result: the body of whatever response came back.
DownloadResult(answer) ==
    IF ~answer.ok THEN [ok |-> FALSE, bytes |-> <<>>]
    ELSE [ok |-> TRUE, bytes |-> answer.body]

\* add_torrent_by_file after the download.
AfterDownload(cfg, t, answer) ==
    LET t1 == Answered(t, answer)
        file == DownloadResult(answer)
    IN  IF ~file.ok THEN Conclude(cfg, t1, Err("reqwest::Error", "download"))
        ELSE StartAddNewTorrent(cfg, t1, RequestFile(file.bytes))

\* download_torrent_file after `.send().await`: an error is returned at once;
\* with a response, of any status, the body is read next.
AfterDownloadSend(cfg, t, head) ==
    IF ~head.ok THEN AfterDownload(cfg, t, [ok |-> FALSE, status |-> head.status, body |-> <<>>])
    ELSE HeadReceived(t, head, "download_body")

\* AfterLogin without the `?` on login's result: the add-torrent request goes
\* out whatever the login returned.
AfterLoginUnchecked(cfg, t, answer) ==
    LET client == [t.client[1] EXCEPT !.cookies = @ \cup answer.set_cookie]
    IN  Issue([Answered(t, answer) EXCEPT !.client = Some(client)],
              AddCall(client, t.request_type[1]), "add")

\* main.rs add_new_torrent after login: an error ends the attempt, success
\* stores the daemon's cookie and sends the add-torrent request.
AfterLogin(cfg, t, answer) ==
    LET t1 == Answered(t, answer)
        logged_in == LoginResult(answer)
        client == [t.client[1] EXCEPT !.cookies = @ \cup answer.set_cookie]
    IN  IF ~logged_in.ok THEN Conclude(cfg, t1, logged_in)
        ELSE Issue([t1 EXCEPT !.client = Some(client)],
                   AddCall(client, t.request_type[1]), "add")

\* AfterAdd with one more try after a failure.
AfterAddRetry(cfg, t, answer) ==
    LET added == AddResult(answer)
        t1 == Answered(t, answer)
        tries == Cardinality({ i \in 1..Len(t.calls) :
                     t.calls[i] = AddCall(t.client[1], t.request_type[1]) })
    IN  IF ~added.ok /\ tries < 2
        THEN Issue(t1, AddCall(t.client[1], t.request_type[1]), "add")
        ELSE Conclude(cfg, t1, IF added.ok THEN Ok("Enqueued") ELSE added)

\* AfterAdd that drops the attempt when the request did not go through: the
\* handler returns with no result and no reply.
AfterAddCancelled(cfg, t, answer) ==
    LET added == AddResult(answer)
        t1 == Answered(t, answer)
    IN  IF ~answer.ok THEN HandlerReturns(cfg, t1, EventReturnDefault)
        ELSE Conclude(cfg, t1, IF added.ok THEN Ok("Enqueued") ELSE added)

\* The ingestion after the add-torrent request, complete or failed.
AfterAdd(cfg, t, answer) ==
    LET added == AddResult(answer)
    IN  Conclude(cfg, Answered(t, answer),
                 IF added.ok THEN Ok("Enqueued") ELSE added)

\* QBittorrentClient::add_new_torrent after `.send().await`: an error is
\* returned at once; with a response, the body is read next, whatever the
\* status.
AfterAddSend(cfg, t, head) ==
    IF ~head.ok THEN AfterAdd(cfg, t, [ok |-> FALSE, status |-> head.status, body |-> ""])
    ELSE HeadReceived(t, head, "add_body")

(***************************************************************************)
(* The actions.                                                            *)
(***************************************************************************)
\* No client is driven from outside the handlers, and BotState is not built:
\* main.rs keeps its own State.
NoHarness ==
    /\ clients = <<>>
    /\ daemon = [sessions |-> {}, calls |-> 0]
    /\ bot_state = None

Init ==
    /\ configuration \in Configurations
    /\ tasks = [e \in Slots |-> IdleTask]
    /\ NoHarness

Resume(e, t) ==
    /\ tasks' = [tasks EXCEPT ![e] = t]
    /\ UNCHANGED <<configuration, clients, daemon, bot_state>>

\* The dispatcher takes an update and runs its handlers.
Receive(e) ==
    /\ tasks[e].pc = "idle"
    /\ \E u \in Updates :
           Resume(e, Propagate(configuration, [IdleTask EXCEPT !.update = Some(u)], 1))

CallbackAnswered(e) ==
    /\ tasks[e].pc = "cb_answer"
    /\ \E a \in BotAnswers : Resume(e, AfterCallbackAnswer(configuration, tasks[e], a))

ShutdownMessageSent(e) ==
    /\ tasks[e].pc = "cb_send"
    /\ \E a \in BotAnswers : Resume(e, AfterSend(configuration, tasks[e], a))

CommandsMessageSent(e) ==
    /\ tasks[e].pc = "cmd_send"
    /\ \E a \in BotAnswers : Resume(e, AfterSend(configuration, tasks[e], a))

GetFileReturned(e) ==
    /\ tasks[e].pc = "get_file"
    /\ \E a \in GetFileAnswers : Resume(e, AfterGetFile(configuration, tasks[e], a))

\* `state.client.get(url).send().await` returns.
DownloadReturned(e) ==
    /\ tasks[e].pc = "download"
    /\ \E h \in DownloadHeads : Resume(e, AfterDownloadSend(configuration, tasks[e], h))

\* `response.bytes().await` returns.
DownloadBodyReturned(e) ==
    /\ tasks[e].pc = "download_body"
    /\ \E a \in DownloadBodies(tasks[e].head[1]) :
           Resume(e, AfterDownload(configuration, tasks[e], a))

LoginReturned(e) ==
    /\ tasks[e].pc = "login"
    /\ \E a \in LoginAnswersTo(e) : Resume(e, AfterLogin(configuration, tasks[e], a))

\* The add-torrent request's `.send().await` returns.
AddReturned(e) ==
    /\ tasks[e].pc = "add"
    /\ \E h \in AddHeads : Resume(e, AfterAddSend(configuration, tasks[e], h))

\* `res.text().await` returns.
AddBodyReturned(e) ==
    /\ tasks[e].pc = "add_body"
    /\ \E a \in AddBodies(AddAnswers, tasks[e].head[1]) :
           Resume(e, AfterAdd(configuration, tasks[e], a))

ReplySent(e) ==
    /\ tasks[e].pc = "reply"
    /\ \E a \in BotAnswers : Resume(e, AfterSend(configuration, tasks[e], a))

\* The task of a handled update ends; its slot takes the next update.
Retire(e) ==
    /\ tasks[e].pc = "done"
    /\ Resume(e, IdleTask)

Next ==
    \E e \in Slots :
        \/ Receive(e)
        \/ CallbackAnswered(e)
        \/ ShutdownMessageSent(e)
        \/ CommandsMessageSent(e)
        \/ GetFileReturned(e)
        \/ DownloadReturned(e)
        \/ DownloadBodyReturned(e)
        \/ LoginReturned(e)
        \/ AddReturned(e)
        \/ AddBodyReturned(e)
        \/ ReplySent(e)
        \/ Retire(e)

Spec == Init /\ [][Next]_vars

\* A call that is waited for returns, with a response or with an error.
Returns(e) ==
    \/ CallbackAnswered(e)
    \/ ShutdownMessageSent(e)
    \/ CommandsMessageSent(e)
    \/ GetFileReturned(e)
    \/ DownloadReturned(e)
    \/ DownloadBodyReturned(e)
    \/ LoginReturned(e)
    \/ AddReturned(e)
    \/ AddBodyReturned(e)
    \/ ReplySent(e)

\* Spec, with every network call returning in the end.  The handler, a tokio
\* task, goes on as soon as the call it awaits has returned.
SpecLive == Spec /\ \A e \in Slots : WF_vars(Returns(e))

(***************************************************************************)
(* Concurrent ingestions.  The dispatcher spawns a task per update, so the *)
(* ingestions of several updates interleave at their awaits.  SpecConc     *)
(* runs one task more than Spec, on the updates that start an ingestion:   *)
(* the magnet text and the document of a listed sender.                    *)
(***************************************************************************)
ConcSlots == 1..(NumEvents + 1)

ConcConfigurations ==
    { c \in Configurations : c.user_id = <<"4", "2">> /\ UrlParse(c.url).ok }

ConcUpdates ==
    { u \in Updates :
        /\ u.type = "message"
        /\ u.from = Some(42)
        /\ \/ u.kind = "Document"
           \/ u.kind = "Text" /\ StartsWith(u.text, MagnetPrefix) }

InitConc ==
    /\ configuration \in ConcConfigurations
    /\ tasks = [e \in ConcSlots |-> IdleTask]
    /\ NoHarness

\* The first two tasks take any of these updates; the tasks beyond them take
\* the magnet links, whose ingestion is the shortest.
ConcUpdatesOf(e) ==
    IF e <= 2 THEN ConcUpdates ELSE { u \in ConcUpdates : u.kind = "Text" }

ReceiveIngestion(e) ==
    /\ tasks[e].pc = "idle"
    /\ \E u \in ConcUpdatesOf(e) :
           Resume(e, Propagate(configuration, [IdleTask EXCEPT !.update = Some(u)], 1))

NextConc ==
    \E e \in ConcSlots :
        \/ ReceiveIngestion(e)
        \/ GetFileReturned(e)
        \/ DownloadReturned(e)
        \/ DownloadBodyReturned(e)
        \/ LoginReturned(e)
        \/ AddReturned(e)
        \/ AddBodyReturned(e)
        \/ ReplySent(e)
        \/ Retire(e)

SpecConc == InitConc /\ [][NextConc]_vars

(***************************************************************************)
(* The client on its own.  SpecClient drives two QBittorrentClient         *)
(* instances call by call.  login and add_new_torrent are public and take  *)
(* &self, and nothing in client.rs orders them: calls on one instance      *)
(* overlap, each suspended at its `.send().await` (and add_new_torrent     *)
(* once more at `.text().await`) while the others go on.  The daemon keeps *)
(* sessions: it issues a session cookie with each login it accepts and     *)
(* rejects an add-torrent request that carries no cookie of a session it   *)
(* issued.                                                                 *)
(***************************************************************************)
HarnessClients == {1, 2}

\* An instance not built yet: the calls in flight on it, whether a login on
\* it has returned Ok, and the last call that returned.
NoClient == [client |-> None, logged_in |-> FALSE, inflight |-> <<>>, last |-> None]

\* The daemon's answers to the login of client c: the request fails; the
\* login is accepted, with a session cookie; qBittorrent's refusal of bad
\* credentials, 200 with the body "Fails."; 204; 403; 500 with the body "Ok.".
DaemonLoginAnswers(c) ==
    { [ok |-> FALSE, status |-> 0, body |-> "", set_cookie |-> {}],
      [ok |-> TRUE, status |-> 200, body |-> "Ok.", set_cookie |-> {<<"SID", c>>}],
      [ok |-> TRUE, status |-> 200, body |-> "Fails.", set_cookie |-> {}],
      [ok |-> TRUE, status |-> 204, body |-> "", set_cookie |-> {}],
      [ok |-> TRUE, status |-> 403, body |-> "Forbidden", set_cookie |-> {}],
      [ok |-> TRUE, status |-> 500, body |-> "Ok.", set_cookie |-> {}] }

\* The daemon's answers to an add-torrent request: without the cookie of a
\* session it issued, 403 (or the request fails); with one, any answer.
DaemonAddAnswers(call) ==
    IF call.payload.cookies \cap daemon.sessions = {}
    THEN { a \in AddAnswers : ~a.ok \/ a.status = 403 }
    ELSE AddAnswers

ClientPayloads == { RequestUrl(MagnetPrefix \o <<"x">>), RequestFile(TorrentBytes) }

InitClient ==
    /\ configuration \in { c \in Configurations : c.user_id = <<"4", "2">> }
    /\ tasks = <<>>
    /\ clients = [c \in HarnessClients |-> NoClient]
    /\ daemon = [sessions |-> {}, calls |-> 0]
    /\ bot_state = None

\* QBittorrentClient::new(url).
ClientNew(c) ==
    /\ clients[c].client = None
    /\ UrlParse(configuration.url).ok
    /\ clients' = [clients EXCEPT ![c].client =
                       Some(NewClient(UrlParse(configuration.url).url))]
    /\ UNCHANGED <<configuration, tasks, daemon, bot_state>>

\* A call goes out on the instance, with the cookies its store holds now, and
\* waits at `.send().await`.
Sent(c, op, call) ==
    /\ clients' = [clients EXCEPT ![c].inflight =
                       Append(@, [op |-> op, call |-> call, head |-> None,
                                  after_login |-> clients[c].logged_in])]
    /\ daemon' = [daemon EXCEPT !.calls = @ + 1]
    /\ UNCHANGED <<configuration, tasks, bot_state>>

Without(inflight, i) ==
    SubSeq(inflight, 1, i - 1) \o SubSeq(inflight, i + 1, Len(inflight))

\* The i-th call in flight on the instance returns to its caller.
Returned(c, i, client, answer, result) ==
    LET sent == clients[c].inflight[i]
    IN  clients' = [clients EXCEPT ![c] =
            [client |-> Some(client),
             logged_in |-> clients[c].logged_in \/ (sent.op = "login" /\ result.ok),
             inflight |-> Without(clients[c].inflight, i),
             last |-> Some([op |-> sent.op, call |-> sent.call, answer |-> answer,
                            result |-> result, after_login |-> sent.after_login])]]

\* client.login(username, password) up to `.send().await`.
ClientLogin(c) ==
    /\ clients[c].client # None
    /\ daemon.calls < MaxCalls
    /\ Sent(c, "login", LoginCall(clients[c].client[1], configuration.username,
                                  configuration.password))

\* login's `.send().await` returns with the daemon's answer: the cookie store
\* keeps the cookie the answer sets, and login returns its verdict.
ClientLoginReturned(c) ==
    /\ \E i \in 1..Len(clients[c].inflight), a \in DaemonLoginAnswers(c) :
           /\ clients[c].inflight[i].op = "login"
           /\ Returned(c, i, [clients[c].client[1] EXCEPT !.cookies = @ \cup a.set_cookie],
                       a, LoginResult(a))
           /\ daemon' = [daemon EXCEPT !.sessions = @ \cup a.set_cookie]
    /\ UNCHANGED <<configuration, tasks, bot_state>>

\* client.add_new_torrent(request_type) up to `.send().await`.
ClientAdd(c) ==
    /\ clients[c].client # None
    /\ daemon.calls < MaxCalls
    /\ \E request_type \in ClientPayloads :
           Sent(c, "add", AddCall(clients[c].client[1], request_type))

\* add_new_torrent's `.send().await` returns: with an error, which
\* add_new_torrent returns; or with the daemon's response, whose body it then
\* waits for at `.text().await`.
ClientAddReturned(c) ==
    /\ \E i \in 1..Len(clients[c].inflight) :
           LET sent == clients[c].inflight[i]
           IN  /\ sent.op = "add"
               /\ sent.head = None
               /\ \E h \in AddHeadsOf(DaemonAddAnswers(sent.call)) :
                      IF ~h.ok
                      THEN LET a == [ok |-> FALSE, status |-> h.status, body |-> ""]
                           IN  Returned(c, i, clients[c].client[1], a, AddResult(a))
                      ELSE clients' = [clients EXCEPT ![c].inflight[i].head = Some(h)]
    /\ UNCHANGED <<configuration, tasks, daemon, bot_state>>

\* add_new_torrent's `.text().await` returns, and add_new_torrent with it.
ClientAddBodyReturned(c) ==
    /\ \E i \in 1..Len(clients[c].inflight) :
           LET sent == clients[c].inflight[i]
           IN  /\ sent.op = "add"
               /\ sent.head # None
               /\ \E a \in AddBodies(AddAnswers, sent.head[1]) :
                      Returned(c, i, clients[c].client[1], a, AddResult(a))
    /\ UNCHANGED <<configuration, tasks, daemon, bot_state>>

NextClient ==
    \E c \in HarnessClients :
        \/ ClientNew(c)
        \/ ClientLogin(c)
        \/ ClientLoginReturned(c)
        \/ ClientAdd(c)
        \/ ClientAddReturned(c)
        \/ ClientAddBodyReturned(c)

SpecClient == InitClient /\ [][NextClient]_vars

(***************************************************************************)
(* state.rs on its own.  SpecState builds a BotState from a configuration  *)
(* whose `user_id` is any string of at most MaxUserIdLen characters of     *)
(* UserIdChars and whose `url` is optional (util.rs reads it as an         *)
(* Option), and then asks it about senders.                                *)
(***************************************************************************)
UserIdChars == {"4", "2", "0", ",", " ", "-", "a"}

UserIdStrings == UNION { [1..k -> UserIdChars] : k \in 0..MaxUserIdLen }

StateConfigurations ==
    [bot_token : {"TOKEN"}, user_id : UserIdStrings, username : {"admin"},
     password : {"secret"},
     url : {None, Some([scheme |-> "http", authority |-> "qb:8080", path |-> "/"])}]

\* get_gateway_address(): /proc/net/route cannot be read, has no default
\* route, or names the gateway.
GatewayAddresses ==
    { [ok |-> FALSE, address |-> None],
      [ok |-> TRUE, address |-> None],
      [ok |-> TRUE, address |-> Some("172.17.0.1")] }

\* get_bittorrent_api_url(configuration), given run_in_docker() and
\* get_gateway_address().
GetBittorrentApiUrl(cfg, in_docker, gateway) ==
    IF cfg.url # None THEN [ok |-> TRUE, url |-> cfg.url[1], err |-> ""]
    ELSE IF in_docker /\ ~gateway.ok
         THEN [ok |-> FALSE, url |-> cfg.url, err |-> "std::io::Error"]
    ELSE IF in_docker /\ gateway.address # None
         THEN [ok |-> TRUE,
               url |-> [scheme |-> "http",
                        authority |-> gateway.address[1] \o ":8080",
                        path |-> "/"],
               err |-> ""]
    ELSE [ok |-> FALSE, url |-> cfg.url, err |-> "Failed to detect url"]

\* BotState::new(configuration): Ok(BotState) or Err.
BotStateOf(cfg, in_docker, gateway) ==
    LET allowed_user_ids == AllowedUserIds(cfg.user_id)
        url == GetBittorrentApiUrl(cfg, in_docker, gateway)
    IN  [ok |-> url.ok,
         err |-> url.err,
         allowed_user_ids |-> IF url.ok THEN allowed_user_ids ELSE {},
         options |-> [url |-> url.url, username |-> cfg.username,
                      password |-> cfg.password],
         asked |-> None]

InitState ==
    /\ configuration \in StateConfigurations
    /\ tasks = <<>>
    /\ clients = <<>>
    /\ daemon = [sessions |-> {}, calls |-> 0]
    /\ bot_state = None

BotStateNew ==
    /\ bot_state = None
    /\ \E in_docker \in BOOLEAN, gateway \in GatewayAddresses :
           bot_state' = Some(BotStateOf(configuration, in_docker, gateway))
    /\ UNCHANGED <<configuration, tasks, clients, daemon>>

\* state.user_allowed(id), with the question and its answer kept.
UserAllowedCall(id) ==
    /\ bot_state # None
    /\ bot_state[1].ok
    /\ bot_state' = Some([bot_state[1] EXCEPT
                             !.asked = Some([user_id |-> id,
                                             allowed |-> id \in bot_state[1].allowed_user_ids])])
    /\ UNCHANGED <<configuration, tasks, clients, daemon>>

NextState ==
    \/ BotStateNew
    \/ \E id \in UserIds : UserAllowedCall(id)

SpecState == InitState /\ [][NextState]_vars

(***************************************************************************)
(* Vocabulary of the properties.                                           *)
(***************************************************************************)
Handling == { e \in DOMAIN tasks : tasks[e].update # None }
MessageTasks == { e \in Handling : tasks[e].update[1].type = "message" }
CallbackTasks == { e \in Handling : tasks[e].update[1].type = "callback_query" }

\* The tasks whose update has a sender, by whether the sender is in the
\* allow-list parsed from the configuration.
Listed(e) ==
    /\ tasks[e].update[1].from # None
    /\ UserAllowed(configuration.user_id, tasks[e].update[1].from[1])
Unlisted(e) ==
    /\ tasks[e].update[1].from # None
    /\ ~UserAllowed(configuration.user_id, tasks[e].update[1].from[1])

CallIndexes(t) == 1..Len(t.calls)
IsLogin(c) == c.via = "daemon" /\ c.target.path = "/api/v2/auth/login"
IsAdd(c) == c.via = "daemon" /\ c.target.path = "/api/v2/torrents/add"
IsReply(c) == c.via = "bot" /\ c.method = "SendMessage"
LoginCalls(t) == { i \in CallIndexes(t) : IsLogin(t.calls[i]) }
AddCalls(t) == { i \in CallIndexes(t) : IsAdd(t.calls[i]) }
DaemonCalls(t) == { i \in CallIndexes(t) : t.calls[i].via = "daemon" }
Replies(t) == { i \in CallIndexes(t) : IsReply(t.calls[i]) }
RepliesWith(t, text) == { i \in Replies(t) : t.calls[i].payload.text = text }
HasAnswer(t, i) == i <= Len(t.answers)

\* The sender was turned away by a handler's test.
TurnedAway(t) == \E i \in 1..Len(t.logged) : t.logged[i].msg = "Unknown user id"

\* The terminal states of the ingestion.
Rejected(t) == TurnedAway(t)
Ignored(t) == t.result = Some(Ok("Skipped"))
Enqueued(t) == t.result = Some(Ok("Enqueued"))
Failed(t) == t.result # None /\ ~t.result[1].ok

IsText(e) == tasks[e].update[1].kind = "Text"
IsDocument(e) == tasks[e].update[1].kind = "Document"
IsMagnet(e) == IsText(e) /\ StartsWith(tasks[e].update[1].text, MagnetPrefix)

(***************************************************************************)
(* C1 and C2: the allow-list.                                              *)
(***************************************************************************)
\* C1: handling a message whose sender is not in the allow-list makes no
\* outbound call at all: no file lookup or fetch, no daemon request, no reply.
C1_UnlistedSenderCausesNothing ==
    \A e \in MessageTasks : Unlisted(e) => tasks[e].calls = <<>>

\* C2: a message is let through by the handlers exactly when its sender's
\* identifier is one of the identifiers parsed from the configured list.
C2_LetThroughIffListed ==
    \A e \in MessageTasks :
        tasks[e].update[1].from # None => (~TurnedAway(tasks[e]) <=> Listed(e))

(***************************************************************************)
(* C3, C4, C6: the daemon client.                                          *)
(***************************************************************************)
\* C3: an add-torrent request that was answered is a success exactly when the
\* answer has a success status and the body "Ok."; any other answer (and a
\* failed request) is an error, for the text and for the file payload alike.
C3_AddSucceedsIffOkSentinel ==
    \A e \in MessageTasks :
        \A i \in AddCalls(tasks[e]) :
            HasAnswer(tasks[e], i) =>
                LET a == tasks[e].answers[i]
                IN  /\ tasks[e].result # None
                    /\ Enqueued(tasks[e]) <=>
                           (a.ok /\ a.status \in 200..299 /\ a.body = "Ok.")
                    /\ Failed(tasks[e]) <=>
                           ~(a.ok /\ a.status \in 200..299 /\ a.body = "Ok.")

\* A file was submitted, the daemon answered 200 with the body "Fails.", and
\* the ingestion failed.
C3_Witness ==
    \E e \in MessageTasks :
        \E i \in AddCalls(tasks[e]) :
            /\ HasAnswer(tasks[e], i)
            /\ tasks[e].request_type[1].variant = "File"
            /\ tasks[e].answers[i].status = 200
            /\ tasks[e].answers[i].body = "Fails."
            /\ Failed(tasks[e])

\* C4: an add-torrent request is only ever sent after a login request of the
\* same client was answered with a success status; when the login is refused
\* or fails, the attempt has no add-torrent request and ends in Failed.
C4_AddOnlyAfterLogin ==
    \A e \in Handling :
        LET t == tasks[e]
        IN  /\ \A i \in AddCalls(t) :
                   \E j \in LoginCalls(t) :
                       /\ j < i
                       /\ t.answers[j].ok
                       /\ t.answers[j].status \in 200..299
                       /\ t.calls[j].target.authority = t.calls[i].target.authority
            /\ \A j \in LoginCalls(t) :
                   (HasAnswer(t, j) /\ ~(t.answers[j].ok /\ t.answers[j].status \in 200..299))
                       => (AddCalls(t) = {} /\ Failed(t))

\* The login was refused with 403 and the update's handling is over.
C4_Witness ==
    \E e \in Handling :
        /\ tasks[e].pc = "done"
        /\ \E j \in LoginCalls(tasks[e]) : tasks[e].answers[j].status = 403
        /\ AddCalls(tasks[e]) = {}
        /\ Failed(tasks[e])

\* The body of the successful download of a document task, if any.
Downloaded(t) ==
    { t.answers[i].body : i \in { j \in CallIndexes(t) :
        t.calls[j].via = "state.client" /\ HasAnswer(t, j) /\ t.answers[j].ok } }

\* C6: every add-torrent request has a multipart body of exactly one part: for
\* a document the part `torrents` with the file name torrent.torrent, the type
\* application/x-bittorrent and the fetched bytes; for a magnet text the part
\* `urls` with no file name, no type and the text.
C6_OnePartPerPayload ==
    \A e \in MessageTasks :
        \A i \in AddCalls(tasks[e]) :
            LET parts == tasks[e].calls[i].payload.multipart
            IN  /\ Len(parts) = 1
                /\ IsDocument(e) =>
                       /\ parts[1].name = "torrents"
                       /\ parts[1].file_name = <<"torrent.torrent">>
                       /\ parts[1].mime = <<"application/x-bittorrent">>
                       /\ Downloaded(tasks[e]) = {parts[1].content}
                /\ IsText(e) =>
                       /\ parts[1].name = "urls"
                       /\ parts[1].file_name = <<>>
                       /\ parts[1].mime = <<>>
                       /\ parts[1].content = tasks[e].update[1].text

\* An add-torrent request with a `torrents` part is out.
C6_Witness ==
    \E e \in MessageTasks :
        \E i \in AddCalls(tasks[e]) :
            /\ tasks[e].calls[i].payload.multipart[1].name = "torrents"
            /\ tasks[e].calls[i].payload.multipart[1].content = TorrentBytes

(***************************************************************************)
(* C5, C7, C8, C9: the ingestion of a message.                             *)
(***************************************************************************)
\* What C5 says of every message of a listed sender but the non-magnet texts:
\* a magnet text becomes the URL payload with that text, a document only ever
\* becomes the file payload, with the bytes fetched for it.
C5_Payloads(e) ==
    /\ IsMagnet(e) =>
           tasks[e].request_type = <<[variant |-> "Url", data |-> tasks[e].update[1].text]>>
    /\ IsDocument(e) =>
           /\ tasks[e].request_type # None =>
                  /\ tasks[e].request_type[1].variant = "File"
                  /\ Downloaded(tasks[e]) = {tasks[e].request_type[1].data}
           /\ Downloaded(tasks[e]) # {} => tasks[e].request_type # None

\* Classified Ignored: no payload, no call of any kind (so no daemon request
\* and no reply).
C5_Ignored(e) ==
    /\ Ignored(tasks[e])
    /\ tasks[e].request_type = None
    /\ tasks[e].calls = <<>>

\* C5 as claimed: for a message of a listed sender, a text that begins with
\* "magnet:?" is submitted as the URL payload, a document as the file payload,
\* and every other text and every other kind of message is Ignored.
C5_AsClaimed ==
    \A e \in MessageTasks :
        Listed(e) =>
            /\ C5_Payloads(e)
            /\ (~IsMagnet(e) /\ ~IsDocument(e)) => C5_Ignored(e)

\* C5 as amended: the same, but for the text "/commands", which
\* commands_handler answers with the command keyboard and which is never
\* classified.
C5_ClassifiedByPayload ==
    \A e \in MessageTasks :
        Listed(e) =>
            /\ C5_Payloads(e)
            /\ (~IsMagnet(e) /\ ~IsDocument(e)
                    /\ tasks[e].update[1].text # CommandsText) => C5_Ignored(e)
            /\ (IsText(e) /\ tasks[e].update[1].text = CommandsText) =>
                   /\ tasks[e].result = None
                   /\ DaemonCalls(tasks[e]) = {}
                   /\ RepliesWith(tasks[e], MsgCommands) = {1}

\* A listed sender's text has a magnet link after a space, and was Ignored.
C5_Witness ==
    \E e \in MessageTasks :
        /\ Listed(e)
        /\ IsText(e)
        /\ ~IsMagnet(e)
        /\ Contains(tasks[e].update[1].text, MagnetPrefix)
        /\ tasks[e].pc = "done"
        /\ Ignored(tasks[e])

\* C7: the terminal state alone decides the reply: Enqueued has exactly one
\* reply, the success text; Failed exactly one, the failure text; Ignored and
\* Rejected none.  The ingestion handler never replies twice, and the success
\* text is only sent after the daemon answered the add-torrent request with
\* success.
C7_ReplyByTerminalState ==
    \A e \in MessageTasks :
        LET t == tasks[e]
        IN  /\ Enqueued(t) => (Replies(t) = {Len(t.calls)} /\ RepliesWith(t, MsgEnqueued) = Replies(t))
            /\ Failed(t) => (Replies(t) = {Len(t.calls)} /\ RepliesWith(t, MsgError) = Replies(t))
            /\ Ignored(t) => Replies(t) = {}
            /\ Rejected(t) => Replies(t) = {}
            /\ Cardinality(RepliesWith(t, MsgEnqueued) \cup RepliesWith(t, MsgError)) <= 1
            /\ RepliesWith(t, MsgEnqueued) # {} =>
                   \E i \in AddCalls(t) :
                       /\ HasAnswer(t, i)
                       /\ t.answers[i].ok
                       /\ t.answers[i].status \in 200..299
                       /\ t.answers[i].body = "Ok."

\* An update ended Enqueued and its one reply was delivered.
C7_Witness ==
    \E e \in MessageTasks :
        /\ tasks[e].pc = "done"
        /\ Enqueued(tasks[e])
        /\ Cardinality(Replies(tasks[e])) = 1
        /\ tasks[e].answers[Len(tasks[e].calls)].ok

\* The fetch of the document's bytes failed: the file lookup failed or gave no
\* path, the download failed or was answered with a non-success status.
FetchFailed(t) ==
    \E i \in CallIndexes(t) :
        /\ HasAnswer(t, i)
        /\ \/ /\ t.calls[i].via = "bot"
              /\ t.calls[i].method = "GetFile"
              /\ (~t.answers[i].ok \/ t.answers[i].file_path = None)
           \/ /\ t.calls[i].via = "state.client"
              /\ (~t.answers[i].ok \/ ~(t.answers[i].status \in 200..299))

\* C8: when the fetch of a listed sender's document fails in any way, the
\* update ends in Failed with the failure reply and the daemon gets no login
\* and no add-torrent request.
C8_FetchFailureStopsIngestion ==
    \A e \in MessageTasks :
        (Listed(e) /\ IsDocument(e) /\ FetchFailed(tasks[e])) =>
            /\ DaemonCalls(tasks[e]) = {}
            /\ Failed(tasks[e])
            /\ RepliesWith(tasks[e], MsgError) # {}

\* C9: a message causes at most one login and at most one add-torrent request;
\* a listed sender's magnet text whose login the daemon accepts and whose
\* add-torrent request it answers "Ok." gives exactly one add-torrent request,
\* its `urls` part that text, and the enqueued reply.
C9_SingleAttempt ==
    \A e \in MessageTasks :
        LET t == tasks[e]
        IN  /\ Cardinality(LoginCalls(t)) <= 1
            /\ Cardinality(AddCalls(t)) <= 1
            /\ Cardinality(DaemonCalls(t)) <= 2
            /\ (/\ Listed(e)
                /\ IsMagnet(e)
                /\ \E j \in LoginCalls(t) :
                       HasAnswer(t, j) /\ t.answers[j].ok /\ t.answers[j].status = 200
                /\ \E i \in AddCalls(t) :
                       HasAnswer(t, i) /\ t.answers[i].ok /\ t.answers[i].status = 200
                           /\ t.answers[i].body = "Ok.")
               => /\ \E i \in AddCalls(t) :
                         /\ Len(t.calls[i].payload.multipart) = 1
                         /\ t.calls[i].payload.multipart[1].name = "urls"
                         /\ t.calls[i].payload.multipart[1].content = t.update[1].text
                  /\ Cardinality(AddCalls(t)) = 1
                  /\ RepliesWith(t, MsgEnqueued) # {}
                  /\ RepliesWith(t, MsgError) = {}

\* A listed sender's magnet text went through: login accepted, "Ok.", and the
\* enqueued reply was sent.
C9_Witness ==
    \E e \in MessageTasks :
        /\ Listed(e)
        /\ IsMagnet(e)
        /\ tasks[e].pc = "done"
        /\ Cardinality(AddCalls(tasks[e])) = 1
        /\ RepliesWith(tasks[e], MsgEnqueued) # {}

(***************************************************************************)
(* C10: the shutdown trigger.                                              *)
(***************************************************************************)
\* C10: a shutdown trigger from a sender that is not in the allow-list has no
\* effect: no shutdown message is sent.
C10_ShutdownNeedsListedSender ==
    \A e \in CallbackTasks :
        Unlisted(e) => RepliesWith(tasks[e], MsgShutdown) = {}

(***************************************************************************)
(* C11: what a failure shows to the chat.                                  *)
(***************************************************************************)
ReplyCalls(t) == { t.calls[i] : i \in Replies(t) }

\* The error of a failed ingestion is in the log, at level error.
ErrorLogged(t) ==
    \E i \in 1..Len(t.logged) :
        /\ t.logged[i].level = "error"
        /\ t.logged[i].msg = t.result[1].err.msg
        /\ t.logged[i].detail = t.result[1].err.detail

\* C11: the failure reply does not depend on the error: any two failed
\* ingestions (in the same chat) have the same reply, the fixed failure text,
\* whatever their errors; the error itself goes to the log only.
C11_FailureReplyIndependentOfError ==
    \A e1 \in MessageTasks : \A e2 \in MessageTasks :
        (/\ Failed(tasks[e1])
         /\ Failed(tasks[e2])
         /\ tasks[e1].update[1].chat = tasks[e2].update[1].chat)
        => /\ ReplyCalls(tasks[e1]) = ReplyCalls(tasks[e2])
           /\ ReplyCalls(tasks[e1]) = {[via |-> "bot", method |-> "SendMessage",
                                        target |-> tasks[e1].update[1].chat,
                                        payload |-> [text |-> MsgError, reply_markup |-> <<>>]]}
           /\ ErrorLogged(tasks[e1])

\* Two ingestions have failed, one at the login and one at the add-torrent
\* request, and both have their reply out.
C11_Witness ==
    \E e1 \in MessageTasks : \E e2 \in MessageTasks :
        /\ Failed(tasks[e1])
        /\ Failed(tasks[e2])
        /\ tasks[e1].result[1].err.msg = "Auth failed"
        /\ tasks[e2].result[1].err.msg = "Error adding new torrent with file"
        /\ tasks[e2].result[1].err.detail = "Forbidden"
        /\ Replies(tasks[e1]) # {}
        /\ Replies(tasks[e2]) # {}

(***************************************************************************)
(* C12 and C17: the client on its own.                                     *)
(***************************************************************************)
Driven == { c \in DOMAIN clients : clients[c].client # None }

\* The add-torrent requests in flight on an instance that went out before
\* any login on it had returned Ok.
EarlyAdds(c) ==
    { i \in 1..Len(clients[c].inflight) :
        clients[c].inflight[i].op = "add" /\ ~clients[c].inflight[i].after_login }

\* C12: as long as no login on a client instance has succeeded, the instance
\* holds no session of the daemon, and an add-torrent request sent on it then
\* carries none and comes back as an error, never as success, whatever the
\* other instance has done and also when a login on the same instance
\* succeeds while the request is under way.
C12_NoAddBeforeLogin ==
    \A c \in Driven :
        /\ ~clients[c].logged_in => clients[c].client[1].cookies \cap daemon.sessions = {}
        /\ \A i \in EarlyAdds(c) :
               clients[c].inflight[i].call.payload.cookies \cap daemon.sessions = {}
        /\ (/\ clients[c].last # None
            /\ clients[c].last[1].op = "add"
            /\ ~clients[c].last[1].after_login) => ~clients[c].last[1].result.ok

\* An add-torrent request went out while the login of the same instance was
\* under way; the login has since returned Ok with a session, and the request
\* was answered 403 and returned an error.
C12_Witness ==
    \E c \in Driven :
        /\ clients[c].logged_in
        /\ clients[c].client[1].cookies \cap daemon.sessions # {}
        /\ clients[c].last # None
        /\ clients[c].last[1].op = "add"
        /\ ~clients[c].last[1].after_login
        /\ clients[c].last[1].call.payload.cookies = {}
        /\ clients[c].last[1].answer.status = 403
        /\ ~clients[c].last[1].result.ok

(***************************************************************************)
(* C13: the allow-list of BotState.                                        *)
(***************************************************************************)
\* The entries of a comma-separated string: its maximal comma-free stretches.
Entries(s) ==
    { SubSeq(s, i, j) : <<i, j>> \in
        { <<a, b>> \in (1..(Len(s) + 1)) \X (0..Len(s)) :
            /\ b >= a - 1
            /\ a = 1 \/ s[a - 1] = ","
            /\ b = Len(s) \/ s[b + 1] = ","
            /\ \A k \in a..b : s[k] # "," } }

Zeros(k) == [i \in 1..k |-> "0"]

\* p is a way of writing the integer n: an optional sign, any number of
\* leading zeros, and the decimal digits of |n|.
Numeral(p, n) ==
    \E sign \in {<<>>, <<"+">>, <<"-">>}, k \in 0..Len(p) :
        /\ p = sign \o Zeros(k) \o NatToString(IF n < 0 THEN 0 - n ELSE n)
        /\ sign = <<"-">> => n <= 0
        /\ sign # <<"-">> => n >= 0

\* p is written as an integer: an optional sign and then digits only.
LooksInteger(p) ==
    \E sign \in 0..1 :
        /\ Len(p) > sign
        /\ sign = 1 => p[1] \in {"+", "-"}
        /\ \A i \in (sign + 1)..Len(p) : p[i] \in {"0", "1", "2", "3", "4", "5", "6", "7", "8", "9"}

C13_SetIsTheIntegerEntries ==
    bot_state # None =>
        /\ ~bot_state[1].ok => configuration.url = None
        /\ bot_state[1].ok =>
             /\ \A n \in bot_state[1].allowed_user_ids :
                    \E p \in Entries(configuration.user_id) : Numeral(p, n)
             /\ \A p \in Entries(configuration.user_id) :
                    LooksInteger(p) =>
                        \E n \in bot_state[1].allowed_user_ids : Numeral(p, n)

C13_SetNeverModified ==
    bot_state # None => bot_state'[1].allowed_user_ids = bot_state[1].allowed_user_ids

\* C13: the allow-list of a BotState is exactly the set of the integers
\* written by the entries of the comma-separated `user_id` string: an entry
\* that is not written as an integer (empty, non-numeric, padded with spaces)
\* adds nothing and does not make BotState::new fail (it fails only for want
\* of a daemon address), and no step changes the set once it is built.
C13_AllowListIsParsedEntries ==
    [] C13_SetIsTheIntegerEntries /\ [][C13_SetNeverModified]_vars

\* A BotState built from a string with an entry that parses and an entry
\* that does not, and asked about a sender since.
C13_Witness ==
    /\ bot_state # None
    /\ bot_state[1].ok
    /\ bot_state[1].allowed_user_ids # {}
    /\ \E p \in Entries(configuration.user_id) : ~LooksInteger(p)
    /\ bot_state[1].asked # None

(***************************************************************************)
(* C14: the malformed daemon address.                                      *)
(***************************************************************************)
\* C14: a configured daemon address that does not parse as an absolute URL
\* stops the process at startup, so that no update handled by the running bot
\* ends in Failed over it.  (main and run_bot never parse the address:
\* Url::parse runs in QBittorrentClient::new, once per ingestion.)
C14_MalformedUrlFatalAtStartup ==
    \A e \in Handling :
        ~(/\ ~UrlParse(configuration.url).ok
          /\ Failed(tasks[e])
          /\ tasks[e].result[1].err.msg = "url::ParseError")

(***************************************************************************)
(* C15: failures at the dispatch boundary.                                 *)
(***************************************************************************)
\* A step of the ingestion failed: the file lookup or the download (an error,
\* no file path, a non-success status), the construction of the client, the
\* login, or the add-torrent request.
StepFailed(t) ==
    \/ FetchFailed(t)
    \/ t.request_type # None /\ ~UrlParse(configuration.url).ok
    \/ \E i \in LoginCalls(t) :
           HasAnswer(t, i) /\ (~t.answers[i].ok \/ ~(t.answers[i].status \in 200..299))
    \/ \E i \in AddCalls(t) :
           /\ HasAnswer(t, i)
           /\ \/ ~t.answers[i].ok
              \/ ~(t.answers[i].status \in 200..299)
              \/ t.answers[i].body # "Ok."

\* The handler that ended the task returned Ok(..) to the dispatcher.
ReturnedNormally(t) ==
    /\ Len(t.returned) > 0
    /\ t.returned[Len(t.returned)].value # "Err"

\* C15: when a step of a listed sender's ingestion has failed, the handled
\* message ends in Failed with the error in the log, and its handler returns
\* normally to the dispatcher.
C15_FailuresEndInFailed ==
    \A e \in MessageTasks :
        (Listed(e) /\ StepFailed(tasks[e]) /\ tasks[e].pc = "done") =>
            /\ Failed(tasks[e])
            /\ ErrorLogged(tasks[e])
            /\ ReturnedNormally(tasks[e])

(***************************************************************************)
(* C16: concurrent ingestions.                                             *)
(***************************************************************************)
\* The handler's steps on an answer, by where the task waits.  The answer to
\* a download or to an add-torrent request comes in two steps, the response
\* and then its body, unless the request itself failed (status 0).
StepOn(cfg, t, answer) ==
    CASE t.pc = "cb_answer" -> AfterCallbackAnswer(cfg, t, answer)
      [] t.pc = "get_file" -> AfterGetFile(cfg, t, answer)
      [] t.pc = "download" ->
            IF answer.status = 0 THEN AfterDownloadSend(cfg, t, HeadOf(answer))
            ELSE AfterDownload(cfg, AfterDownloadSend(cfg, t, [ok |-> TRUE, status |-> answer.status]),
                               answer)
      [] t.pc = "login" -> AfterLogin(cfg, t, answer)
      [] t.pc = "add" ->
            IF answer.status = 0 THEN AfterAddSend(cfg, t, HeadOf(answer))
            ELSE AfterAdd(cfg, AfterAddSend(cfg, t, [ok |-> TRUE, status |-> answer.status]),
                          answer)
      [] OTHER -> AfterSend(cfg, t, answer)

\* The task of an update handled with nothing else going on, over a sequence
\* of answers.
RECURSIVE HandledAlone(_, _, _)
HandledAlone(cfg, t, answers) ==
    IF answers = <<>> THEN t
    ELSE HandledAlone(cfg, StepOn(cfg, t, Head(answers)), Tail(answers))

Alone(cfg, t) ==
    LET answered == HandledAlone(cfg, Propagate(cfg, [IdleTask EXCEPT !.update = t.update], 1),
                                 t.answers)
    IN  IF t.head = None THEN answered
        ELSE IF answered.pc = "download" THEN AfterDownloadSend(cfg, answered, t.head[1])
        ELSE AfterAddSend(cfg, answered, t.head[1])

\* The cookies the daemon set in answer to the task's own logins.
OwnCookies(t) ==
    UNION { t.answers[i].set_cookie : i \in { j \in LoginCalls(t) : HasAnswer(t, j) } }

\* C16: with several ingestions under way at once, each has a client and a
\* cookie store of its own: the login goes out on an empty store, the
\* add-torrent request carries only cookies set in answer to the same
\* attempt's login, never the session of another attempt; a client exists only
\* within an attempt (none in a free slot, none used once the attempt has its
\* result); and every task is, in every interleaving, the task its update
\* gives when handled alone with the same answers.
C16_OwnClientPerAttempt ==
    /\ \A e \in DOMAIN tasks : tasks[e].update = None => tasks[e].client = None
    /\ \A e \in Handling :
          LET t == tasks[e]
          IN  /\ \A i \in LoginCalls(t) : t.calls[i].payload.cookies = {}
              /\ \A i \in AddCalls(t) :
                    /\ t.calls[i].payload.cookies \subseteq OwnCookies(t)
                    /\ \A other \in DOMAIN tasks \ {e} :
                           <<"SID", other>> \notin t.calls[i].payload.cookies
              /\ t.client # None => t.request_type # None
              /\ t.result # None => \A i \in DaemonCalls(t) : HasAnswer(t, i)
              /\ t = Alone(configuration, t)

\* Two attempts wait for the daemon's answer to their add-torrent requests at
\* the same time, one for the response and one, its response received, for
\* the body, each request with the session of its own login.
C16_Witness ==
    \E e1, e2 \in Handling :
        /\ e1 # e2
        /\ tasks[e1].pc = "add_body"
        /\ tasks[e2].pc = "add"
        /\ \E i \in AddCalls(tasks[e1]) : tasks[e1].calls[i].payload.cookies = {<<"SID", e1>>}
        /\ \E i \in AddCalls(tasks[e2]) : tasks[e2].calls[i].payload.cookies = {<<"SID", e2>>}

(***************************************************************************)
(* C17: the verdict of login.                                              *)
(***************************************************************************)
LastLogins == { c \in Driven : clients[c].last # None /\ clients[c].last[1].op = "login" }

\* C17: login returns Ok exactly when the request went through and the
\* daemon's status is a success status (2xx), whatever the body says; a
\* non-success status gives the error "Auth failed", and a request that did
\* not go through gives the transport's error.
C17_LoginSucceedsIffSuccessStatus ==
    \A c \in LastLogins :
        LET answer == clients[c].last[1].answer
            result == clients[c].last[1].result
        IN  /\ result.ok <=> (answer.ok /\ answer.status \in 200..299)
            /\ (answer.ok /\ ~(answer.status \in 200..299)) => result.err.msg = "Auth failed"
            /\ ~answer.ok => (~result.ok /\ result.err.msg = "reqwest::Error")

\* Of two logins, one was answered 200 with the body "Fails." and returned
\* Ok, the other was answered 500 with the body "Ok." and returned an error.
C17_Witness ==
    \E c1, c2 \in LastLogins :
        /\ clients[c1].last[1].answer.status = 200
        /\ clients[c1].last[1].answer.body = "Fails."
        /\ clients[c1].last[1].result.ok
        /\ clients[c2].last[1].answer.status = 500
        /\ clients[c2].last[1].answer.body = "Ok."
        /\ ~clients[c2].last[1].result.ok

(***************************************************************************)
(* C18: termination.                                                       *)
(***************************************************************************)
TerminalStates(t) ==
    { s \in {"Rejected", "Ignored", "Enqueued", "Failed"} :
        \/ s = "Rejected" /\ Rejected(t)
        \/ s = "Ignored" /\ Ignored(t)
        \/ s = "Enqueued" /\ Enqueued(t)
        \/ s = "Failed" /\ Failed(t) }

\* The command text from a sender commands_handler lets through.
IsCommand(t) ==
    /\ t.update[1].from # None
    /\ CommandsUserKnown(configuration, t.update[1].from[1])
    /\ t.update[1].kind = "Text"
    /\ t.update[1].text = CommandsText

\* C18 as claimed, for the updates whose handling has ended: each is in
\* exactly one of the four terminal states.
C18_AsClaimed ==
    \A e \in Handling :
        tasks[e].pc = "done" => Cardinality(TerminalStates(tasks[e])) = 1

C18_OneTerminalState ==
    \A e \in Handling :
        LET t == tasks[e]
        IN  /\ Cardinality(TerminalStates(t)) <= 1
            /\ t.pc = "done" =>
                  IF t.update[1].type = "message" /\ t.update[1].from # None /\ ~IsCommand(t)
                  THEN Cardinality(TerminalStates(t)) = 1
                  ELSE TerminalStates(t) = {}

C18_NeverCancelled ==
    \A e \in Slots :
        /\ (tasks[e].pc = "add" /\ tasks'[e] # tasks[e]) =>
               \/ Enqueued(tasks'[e]) \/ Failed(tasks'[e])
               \/ tasks'[e].pc = "add_body" /\ tasks'[e].calls = tasks[e].calls
        /\ (tasks[e].pc = "add_body" /\ tasks'[e] # tasks[e]) =>
               Enqueued(tasks'[e]) \/ Failed(tasks'[e])

\* C18: if every call returns in the end, the handling of every update ends;
\* a message with a sender, other than the command text from a sender that
\* commands_handler lets through, ends in exactly one of Rejected, Ignored,
\* Enqueued and Failed, and every other update in none of them; an attempt
\* whose add-torrent request has been issued does nothing but receive the
\* response and read its body, and then is Enqueued or Failed.
C18_EveryEventTerminates ==
    /\ [] C18_OneTerminalState
    /\ [][C18_NeverCancelled]_vars
    /\ \A e \in Slots :
          /\ (tasks[e].pc \notin {"idle", "done"}) ~> (tasks[e].pc = "done")
          /\ (tasks[e].pc \in {"add", "add_body"}) ~> (Enqueued(tasks[e]) \/ Failed(tasks[e]))

\* The handling of a document has ended in Failed after the add-torrent
\* request was answered with an error status, the failure reply delivered.
C18_Witness ==
    \E e \in MessageTasks :
        /\ tasks[e].pc = "done"
        /\ IsDocument(e)
        /\ TerminalStates(tasks[e]) = {"Failed"}
        /\ \E i \in AddCalls(tasks[e]) : tasks[e].answers[i].status = 500
        /\ \E i \in Replies(tasks[e]) : HasAnswer(tasks[e], i) /\ tasks[e].answers[i].ok

(***************************************************************************)
(* C19: the chain of the message handlers.                                 *)
(***************************************************************************)
\* The handlers that have returned for the task, in order.
ReturnedBy(t) == [i \in 1..Len(t.returned) |-> t.returned[i].handler]

C19_Command(t) ==
    /\ t.handler = 1
    /\ t.request_type = None
    /\ DaemonCalls(t) = {}
    /\ t.calls = <<SendMessage(t.update[1].chat, MsgCommands, Some(ShutdownKeyboard))>>
    /\ t.pc = "done" =>
           /\ ReturnedBy(t) = <<"commands_handler">>
           /\ t.returned[1].value # "Skip"

C19_Other(t) ==
    /\ t.handler = 2
    /\ t.returned[1] = [handler |-> "commands_handler", value |-> "Skip"]
    /\ t.pc = "done" => ReturnedBy(t) = MessageHandlers

C19_Stopped(t) ==
    /\ t.handler = 1
    /\ t.pc = "done"
    /\ ReturnedBy(t) = <<"commands_handler">>
    /\ t.returned[1].value # "Skip"
    /\ t.calls = <<>>

C19_NoSender(t) ==
    /\ t.request_type = None
    /\ t.calls = <<>>
    /\ t.result = None

\* C19: the message handlers run in the order commands_handler,
\* torrents_handler.  The command text of a listed sender is answered with
\* the keyboard by commands_handler and goes no further; any other message of
\* a listed sender is skipped by commands_handler and handled by
\* torrents_handler, once; the message of an unlisted sender is stopped by
\* commands_handler, the first to see it; a message without a sender starts
\* no ingestion and gets no reply.
C19_HandlerChain ==
    \A e \in MessageTasks :
        LET t == tasks[e]
            command == IsText(e) /\ t.update[1].text = CommandsText
        IN  /\ (Listed(e) /\ command) => C19_Command(t)
            /\ (Listed(e) /\ ~command) => C19_Other(t)
            /\ Unlisted(e) => C19_Stopped(t)
            /\ t.update[1].from = None => C19_NoSender(t)

====
